---- MODULE Spec2Model ----
(***************************************************************************)
(* A model of the bibliography manager of the visual editor                *)
(* (src/gwt/panmirror/src/editor/src/api/bibliography/bibliography.ts).    *)
(*                                                                         *)
(* The manager owns an ordered list of providers, a merged list of         *)
(* sources, a search index over that list and a writability flag.  load()  *)
(* is an async function: it starts load() on every provider, awaits them   *)
(* all with Promise.all and then runs its continuation, which is           *)
(* synchronous.  Queries are synchronous reads.                            *)
(*                                                                         *)
(* An optional value (x?: T, T | undefined) is a sequence of length at     *)
(* most one: Undefined is the empty sequence, Some(v) holds v.             *)
(***************************************************************************)
EXTENDS Bags, FiniteSets, Integers, Sequences, TLC

\* ------------------------------------------------------------------ bounds

\* The longest list of items one provider ever holds.
MaxItems == 1

\* The number of load() invocations that may be in flight at once.
MaxLoads == 2

\* The longest document the link popup is tried on, in characters.
MaxDocSize == 3

\* ------------------------------------------------------- optional values

Undefined == <<>>

Some(v) == <<v>>

IsDefined(x) == x # Undefined

Value(x) == x[1]

\* --------------------------------------------------------------- providers

\* The key of the provider of the document's own bibliography files.
kLocalBiliographyProviderKey == "local"

\* The key of the provider of the Zotero library.
kZoteroProviderKey == "zotero"

\* this.providers, in registration order.
providers == <<kLocalBiliographyProviderKey, kZoteroProviderKey>>

ProviderIndex == 1..Len(providers)

\* The identifiers sources are drawn from; the same identifier may occur in
\* two providers (ids are unique within a provider only).
Ids == <<"smith2020", "jones2019", "lee2018">>

\* The DOIs sources are drawn from, shared between providers like the ids.
Dois == <<"10.1000/1", "10.1000/2", "10.1000/3">>

\* The k-th source a provider can hold: a BibliographySourceWithCollections.
\* It has an id, a providerKey and collectionKeys, and no field `provider'.
Item(i, k) ==
  [ id             |-> Ids[((k - 1) % Len(Ids)) + 1],
    DOI            |-> Dois[((k - 1) % Len(Dois)) + 1],
    providerKey    |-> providers[i],
    collectionKeys |-> IF k % 2 = 1 THEN <<"c1">> ELSE <<"c1", "c2">> ]

\* The lists of items provider i can hold after one of its loads.
ItemLists(i) == { [k \in 1..n |-> Item(i, k)] : n \in 0..MaxItems }

\* A BibliographyFile, reduced to the one field the manager reads.
BibliographyFile(w) == [writable |-> w]

\* The lists of bibliography files a provider can report: none, a writable
\* file or a read-only file.  The manager reads of a list only whether it is
\* empty and whether it holds a writable file; a list that mixes writable and
\* read-only files arises as the concatenation over two providers.
FileLists ==
  { <<>>, <<BibliographyFile(TRUE)>>, <<BibliographyFile(FALSE)>> }

\* ------------------------------------------------------------------- state

VARIABLES
  sources,    \* this.sources: Undefined or Some(the merged list)
  fuse,       \* this.fuse: Undefined or Some(the index), an index being the
              \* list of documents it was created from
  writable,   \* this.writable: Undefined or Some(boolean)
  provItems,  \* provItems[i]: what providers[i].items() returns
  provFiles,  \* provFiles[i]: what providers[i].bibliographyPaths() returns
  loads,      \* the load() invocations in flight, a bag of records
              \* [pc, results]: results[i] is the state of the promise of
              \* providers[i].load() of that invocation
  last,       \* how the most recently finished load() invocation ended
  bib,        \* the generateBibLaTeX() call being served, if any
  warnings,   \* warnings[i]: what providers[i].warningMessage() returns
  enabled,    \* enabled[i]: what providers[i].isEnabled() returns
  arrival,    \* the providers whose load() resolved since the latest load()
              \* was invoked, in the order they resolved
  lastQuery,  \* the query a caller ran last since load() was last called
  linkTr,     \* the transaction the link popup plugin applied last, if any
  linkPopups, \* the state of the link popup plugin: its decorations
  paneOpen,   \* whether an RMarkdownPreferencesPane exists
  zoteroDataDir_,          \* the text of the pane's directory box
  detectedZoteroDataDir_,  \* the pane's field of that name
  detection,  \* the pane's zoteroDetectDataDirectory request
  stateZoteroDataDir,      \* state_.zoteroDataDir(), the persisted directory
  listCapabilities,  \* the capabilities the list writer and reader were made with
  listNode,   \* the ordered_list node handed to the writer
  listToken,  \* the OrderedList token the writer produced
  listAttrs   \* the node attributes the reader made of the token

managerVars == <<sources, fuse, writable, provItems, provFiles, loads, last>>

\* What only the callers and the providers' other methods change.
observerVars == <<warnings, enabled, arrival, lastQuery>>

\* The state of the other parts of the editor.
linkVars == <<linkTr, linkPopups>>

paneVars ==
  <<paneOpen, zoteroDataDir_, detectedZoteroDataDir_, detection, stateZoteroDataDir>>

listVars == <<listCapabilities, listNode, listToken, listAttrs>>

editorVars == <<linkVars, paneVars, listVars>>

vars ==
  <<sources, fuse, writable, provItems, provFiles, loads, last, bib,
    warnings, enabled, arrival, lastQuery, linkTr, linkPopups,
    paneOpen, zoteroDataDir_, detectedZoteroDataDir_, detection, stateZoteroDataDir,
    listCapabilities, listNode, listToken, listAttrs>>

\* ----------------------------------------------------------- sequence help

RECURSIVE Concat(_)
\* ([] as T[]).concat(...lists)
Concat(lists) ==
  IF lists = <<>> THEN <<>> ELSE Head(lists) \o Concat(Tail(lists))

\* array.includes(x)
Includes(array, x) == \E k \in 1..Len(array) : array[k] = x

\* array.slice(0, n)
Take(array, n) == SubSeq(array, 1, IF n < Len(array) THEN n ELSE Len(array))

\* ------------------------------------------------------------ writability

\* BibliographyManager.bibliographyFiles
bibliographyFiles == Concat([i \in ProviderIndex |-> provFiles[i]])

\* shouldAllowWrites without its first branch: no file, no write.
shouldAllowWrites_strict ==
  Len(SelectSeq(bibliographyFiles, LAMBDA bibFile : bibFile.writable)) > 0

\* BibliographyManager.shouldAllowWrites
shouldAllowWrites ==
  IF Len(bibliographyFiles) = 0
    THEN TRUE
    ELSE Len(SelectSeq(bibliographyFiles, LAMBDA bibFile : bibFile.writable)) > 0

\* isWritable answering from the files as they are on disk now.
isWritable_live == shouldAllowWrites

\* isWritable answering true while no load() has noted the writability.
isWritable_optimistic == IF IsDefined(writable) THEN Value(writable) ELSE TRUE

\* BibliographyManager.isWritable: this.writable || false
isWritable == IF IsDefined(writable) THEN Value(writable) ELSE FALSE

\* ---------------------------------------------------------------- loading

\* providersNeedUpdate.reduce((prev, curr) => prev || curr)
needsIndexUpdate(providersNeedUpdate) ==
  \E i \in ProviderIndex : providersNeedUpdate[i] = "true"

\* The providers' items concatenated last provider first.
providersEntries_reversed ==
  Concat([i \in ProviderIndex |-> provItems[Len(providers) + 1 - i]])

\* The providers' items concatenated in the order their loads resolved.
providersEntries_byArrival ==
  Concat([k \in 1..Len(arrival) |-> provItems[arrival[k]]])

\* ([]).concat(...this.providers.map(provider => provider.items()))
providersEntries == Concat([i \in ProviderIndex |-> provItems[i]])

\* updateIndex building the index once and keeping it afterwards.
updateIndex_once(bibSources) == IF IsDefined(fuse) THEN fuse ELSE Some(bibSources)

\* BibliographyManager.updateIndex: the index created from bibSources
updateIndex(bibSources) == Some(bibSources)

\* The merged list currently held, empty while there is none.
MergedSet == IF IsDefined(sources) THEN Value(sources) ELSE <<>>

\* A continuation that rebuilds whether or not a provider needed an update.
LoadContinuation_always(providersNeedUpdate) ==
  [ writable |-> Some(shouldAllowWrites),
    sources  |-> Some(providersEntries),
    fuse     |-> updateIndex(providersEntries) ]

\* A continuation that takes the items of the providers that needed an update
\* and keeps the held items of the others.
LoadContinuation_partial(providersNeedUpdate) ==
  IF needsIndexUpdate(providersNeedUpdate)
    THEN LET kept(i) == SelectSeq(MergedSet, LAMBDA source : source.providerKey = providers[i])
             mixed == Concat([i \in ProviderIndex |->
                                IF providersNeedUpdate[i] = "true" THEN provItems[i] ELSE kept(i)])
         IN  [ writable |-> Some(shouldAllowWrites),
               sources  |-> Some(mixed),
               fuse     |-> updateIndex(mixed) ]
    ELSE [ writable |-> Some(shouldAllowWrites),
           sources  |-> sources,
           fuse     |-> fuse ]

\* A continuation that notes the writability only when it rebuilds.
LoadContinuation_lazy(providersNeedUpdate) ==
  IF needsIndexUpdate(providersNeedUpdate)
    THEN [ writable |-> Some(shouldAllowWrites),
           sources  |-> Some(providersEntries),
           fuse     |-> updateIndex(providersEntries) ]
    ELSE [ writable |-> writable,
           sources  |-> sources,
           fuse     |-> fuse ]

\* The part of load() that runs after the await, as the manager state it
\* leaves: the writability is noted first, then the sources and the index
\* are replaced if a provider needed an update.
LoadContinuation(providersNeedUpdate) ==
  IF needsIndexUpdate(providersNeedUpdate)
    THEN [ writable |-> Some(shouldAllowWrites),
           sources  |-> Some(providersEntries),
           fuse     |-> updateIndex(providersEntries) ]
    ELSE [ writable |-> Some(shouldAllowWrites),
           sources  |-> sources,
           fuse     |-> fuse ]

\* ----------------------------------------------------------------- queries

\* allSources without the writability gate.
allSources_ungated == MergedSet

\* allSources reading the providers while no merged set is stored.
allSources_eager ==
  IF IsDefined(sources)
    THEN IF isWritable
           THEN Value(sources)
           ELSE SelectSeq(Value(sources),
                          LAMBDA source : source.providerKey = kLocalBiliographyProviderKey)
    ELSE providersEntries

\* BibliographyManager.allSources
allSources ==
  IF IsDefined(sources) /\ isWritable
    THEN Value(sources)
    ELSE IF IsDefined(sources)
           THEN SelectSeq(Value(sources),
                          LAMBDA source : source.providerKey = kLocalBiliographyProviderKey)
           ELSE <<>>

\* BibliographyManager.hasSources
hasSources == Len(allSources) > 0

\* sourcesForProvider reading the merged set instead of allSources().
sourcesForProvider_ungated(providerKey) ==
  SelectSeq(MergedSet, LAMBDA item : item.providerKey = providerKey)

\* BibliographyManager.sourcesForProvider
sourcesForProvider(providerKey) ==
  SelectSeq(allSources, LAMBDA item : item.providerKey = providerKey)

\* BibliographyManager.sourcesForProviderCollection
sourcesForProviderCollection(provider, collectionKey) ==
  SelectSeq(sourcesForProvider(provider),
            LAMBDA item : Includes(item.collectionKeys, collectionKey))

\* localSources without the provider filter.
localSources_all == allSources

\* BibliographyManager.localSources
localSources ==
  SelectSeq(allSources, LAMBDA source : source.providerKey = kLocalBiliographyProviderKey)

\* An optional string used as a condition: undefined and "" are falsy.
Truthy(text) == IsDefined(text) /\ Value(text) # ""

\* array.find(predicate), given the elements that satisfy the predicate: the
\* first of them, if any.
Find(satisfying) ==
  IF satisfying = <<>> THEN Undefined ELSE Some(Head(satisfying))

\* BibliographyManager.findDoiInLocalBibliography
findDoiInLocalBibliography(doi) ==
  Find(SelectSeq(localSources, LAMBDA source : source.DOI = doi))

\* BibliographyManager.findIdInLocalBibliography
findIdInLocalBibliography(id) ==
  Find(SelectSeq(localSources, LAMBDA source : source.id = id))

\* warning answering for the last provider that reports one.
warning_last ==
  LET reporting == { i \in ProviderIndex : Truthy(warnings[i]) }
  IN  IF reporting # {}
        THEN warnings[CHOOSE i \in reporting : \A j \in reporting : i >= j]
        ELSE Undefined

\* BibliographyManager.warning
warning ==
  LET reporting == { i \in ProviderIndex : Truthy(warnings[i]) }
  IN  IF reporting # {}
        THEN warnings[CHOOSE i \in reporting : \A j \in reporting : i <= j]
        ELSE Undefined

\* BibliographyManager.warningForProvider; providerKey is an optional string.
warningForProvider(providerKey) ==
  IF Truthy(providerKey)
    THEN IF \E i \in ProviderIndex : providers[i] = Value(providerKey)
           THEN warnings[CHOOSE i \in ProviderIndex : providers[i] = Value(providerKey)]
           ELSE Undefined
    ELSE Undefined

\* object[field] === value, for a field the object may lack: a missing field
\* reads as undefined, which is no string.
FieldIs(object, field, value) ==
  field \in DOMAIN object /\ object[field] = value

\* limit in BibliographyManager.search
kSearchLimit == 1000

\* Whether the index matches a document against a query text: the query is
\* the document's id, the key of the greatest weight.
FuseMatches(document, query) == document.id = query

\* Fuse.search(query, {limit}): the matching documents, best first, at most
\* `limit' of them.  Equal scores keep the order of the documents.
FuseSearch(index, query, limit) ==
  Take(SelectSeq(index, LAMBDA document : FuseMatches(document, query)), limit)

\* searchAllSources without `limit' among the options of the index search.
searchAllSources_unlimited(query, limit) ==
  IF IsDefined(fuse)
    THEN LET results == FuseSearch(Value(fuse), query, Len(Value(fuse)))
             items == results
         IN  IF isWritable
               THEN items
               ELSE SelectSeq(items,
                      LAMBDA item : FieldIs(item, "provider", kLocalBiliographyProviderKey))
    ELSE <<>>

\* BibliographyManager.searchAllSources
searchAllSources(query, limit) ==
  IF IsDefined(fuse)
    THEN LET results == FuseSearch(Value(fuse), query, limit)
             items == results
             filteredItems ==
               IF isWritable
                 THEN items
                 ELSE SelectSeq(items,
                        LAMBDA item : FieldIs(item, "provider", kLocalBiliographyProviderKey))
         IN  filteredItems
    ELSE <<>>

\* searchProvider searching among the provider's documents only, so that the
\* limit counts the provider's matches.
searchProvider_scopeFirst(query, limit, providerKey) ==
  IF IsDefined(fuse) /\ isWritable
    THEN FuseSearch(SelectSeq(Value(fuse), LAMBDA item : item.providerKey = providerKey),
                    query, limit)
    ELSE <<>>

\* searchProvider without the provider filter.
searchProvider_unscoped(query, limit, providerKey) == searchAllSources(query, limit)

\* BibliographyManager.searchProvider
searchProvider(query, limit, providerKey) ==
  SelectSeq(searchAllSources(query, limit), LAMBDA item : item.providerKey = providerKey)

\* searchProviderCollection without the collection filter.
searchProviderCollection_unscoped(query, limit, providerKey, collectionKey) ==
  searchProvider(query, limit, providerKey)

\* BibliographyManager.searchProviderCollection
searchProviderCollection(query, limit, providerKey, collectionKey) ==
  SelectSeq(searchProvider(query, limit, providerKey),
            LAMBDA item : Includes(item.collectionKeys, collectionKey))

\* search applying a collection key also when no provider key is given.
search_collectionAlone(query, providerKey, collectionKey) ==
  LET limit == kSearchLimit
      InKey(items) ==
        IF Truthy(collectionKey)
          THEN SelectSeq(items,
                 LAMBDA item : Includes(item.collectionKeys, Value(collectionKey)))
          ELSE items
  IN  IF Truthy(query)
        THEN IF Truthy(providerKey)
               THEN InKey(searchProvider(Value(query), limit, Value(providerKey)))
               ELSE InKey(searchAllSources(Value(query), limit))
        ELSE IF Truthy(providerKey)
               THEN InKey(sourcesForProvider(Value(providerKey)))
               ELSE InKey(allSources)

\* BibliographyManager.search; its three parameters are optional strings.
search(query, providerKey, collectionKey) ==
  LET limit == kSearchLimit
  IN  IF Truthy(query)
        THEN IF Truthy(providerKey) /\ Truthy(collectionKey)
               THEN searchProviderCollection(Value(query), limit,
                                             Value(providerKey), Value(collectionKey))
               ELSE IF Truthy(providerKey)
                      THEN searchProvider(Value(query), limit, Value(providerKey))
                      ELSE searchAllSources(Value(query), limit)
        ELSE IF Truthy(providerKey) /\ Truthy(collectionKey)
               THEN sourcesForProviderCollection(Value(providerKey), Value(collectionKey))
               ELSE IF Truthy(providerKey)
                      THEN sourcesForProvider(Value(providerKey))
                      ELSE allSources

\* The query texts tried: every id, a text no document matches, and "".
Queries == { Ids[k] : k \in 1..Len(Ids) } \cup { "nomatch", "" }

\* ---------------------------------------------------------- generateBibLaTeX

\* The titles of the CSL records handed to generateBibLaTeX.
Titles == { "Foo", "Bar", "" }

\* The provider arguments handed to generateBibLaTeX.
ProviderArguments ==
  { Undefined, Some(""), Some("mendeley") } \cup { Some(providers[i]) : i \in ProviderIndex }

\* A BibLaTeX entry, by who generated it.
BibLaTeX(generator, id, title) == [generator |-> generator, id |-> id, title |-> title]

\* toBibLaTeX(id, csl) of bibDB, the generic formatter.
toBibLaTeX(id, csl) == BibLaTeX("bibDB", id, csl.title)

\* What providers[i].generateBibLaTeX(ui, id, csl) can resolve to: nothing,
\* or the provider's own entry.
ProviderAnswers(i, id, csl) == { Undefined, Some(BibLaTeX(providers[i], id, csl.title)) }

\* A lookup that falls back on the first provider when the key names none.
FindProvider_first(provider) ==
  IF IsDefined(provider) /\ \E i \in ProviderIndex : providers[i] = Value(provider)
    THEN CHOOSE i \in ProviderIndex : providers[i] = Value(provider)
    ELSE 1

\* this.providers.find(prov => prov.key === provider), as an index; 0 when
\* there is none.
FindProvider(provider) ==
  IF IsDefined(provider) /\ \E i \in ProviderIndex : providers[i] = Value(provider)
    THEN CHOOSE i \in ProviderIndex : providers[i] = Value(provider)
    ELSE 0

\* A JavaScript value used as a condition.  A Promise is an object, and an
\* object is truthy whatever the Promise resolves to.
JsTruthy(value) ==
  CASE value.type = "promise"   -> TRUE
    [] value.type = "string"    -> value.text # ""
    [] value.type = "undefined" -> FALSE

\* What the body of generateBibLaTeX returns: the provider's Promise, or a
\* Promise resolved with the generic entry.
generateBibLaTeX(id, csl, provider) ==
  LET dataProvider == FindProvider(provider)
      dataProviderBibLaTeX == [type |-> "promise", of |-> dataProvider]
      generic == [type |-> "resolved", of |-> 0]
  IN  IF dataProvider # 0
        THEN IF JsTruthy(dataProviderBibLaTeX) THEN dataProviderBibLaTeX ELSE generic
        ELSE generic

NoCall ==
  [pc |-> "idle", id |-> "", csl |-> [title |-> ""], provider |-> Undefined,
   asked |-> 0, answer |-> Undefined, result |-> Undefined]

\* ----------------------------------------------------------- link popup

\* A document is a line of characters, each carrying the href of its link
\* mark or "" when it has none; positions run from 0 (before the first
\* character) to the length of the line.
Hrefs == { "", "https://a.org", "https://b.org" }

Docs == UNION { [1..n -> Hrefs] : n \in 1..MaxDocSize }

\* const kMaxPopupWidth
kMaxPopupWidth == 400

\* The width of a character on screen, in pixels.
CharWidth == 100

\* The right edge of the editing root's box on screen: narrow or wide.
BoxRights == { 3 * CharWidth, 2 * kMaxPopupWidth }

\* The transactions: a document, the head of the selection in it, and the
\* geometry of the view showing it.
Transactions ==
  UNION { { [doc |-> doc, head |-> head, boxRight |-> boxRight] :
              head \in 0..Len(doc), boxRight \in BoxRights } : doc \in Docs }

\* getMarkRange($pos, schema.marks.link): the extent of the link mark on the
\* character after the position, or nothing when that character has no link
\* mark or the position is the end of the line.
getMarkRange(doc, pos) ==
  IF pos < Len(doc) /\ doc[pos + 1] # ""
    THEN LET href == doc[pos + 1]
             from == CHOOSE a \in 0..pos :
                       /\ \A p \in (a + 1)..(pos + 1) : doc[p] = href
                       /\ a > 0 => doc[a] # href
             to == CHOOSE b \in (pos + 1)..Len(doc) :
                     /\ \A p \in (pos + 1)..b : doc[p] = href
                     /\ b < Len(doc) => doc[b + 1] # href
         IN  Some([from |-> from, to |-> to])
    ELSE Undefined

\* getMarkAttrs(tr.doc, tr.selection, schema.marks.link): the attributes of
\* the link mark at the selection.
getMarkAttrs(doc, head) == [href |-> doc[head + 1]]

\* editorView.coordsAtPos(pos)
coordsAtPos(pos) == [left |-> pos * CharWidth, right |-> pos * CharWidth]

\* function linkPopup(attrs, style?): the popup element
linkPopup(attrs, style) == [innerText |-> attrs.href, style |-> style]

\* Decoration.widget(pos, toDOM)
DecorationWidget(pos, toDOM) == [type |-> "widget", pos |-> pos, toDOM |-> toDOM]

\* state.init of LinkPopupPlugin
state_init == <<>>

\* An apply that keeps the decorations it had when the selection is not in a
\* link.
state_apply_keep(tr, old) ==
  LET range == getMarkRange(tr.doc, tr.head)
  IN  IF IsDefined(range)
        THEN <<DecorationWidget(Value(range).from,
                                linkPopup(getMarkAttrs(tr.doc, tr.head), Undefined))>>
        ELSE old

\* state.apply of LinkPopupPlugin
state_apply(tr, old) ==
  LET range == getMarkRange(tr.doc, tr.head)
  IN  IF IsDefined(range)
        THEN LET attrs == getMarkAttrs(tr.doc, tr.head)
                 linkCoords == coordsAtPos(Value(range).from)
                 positionRight == (linkCoords.left + kMaxPopupWidth) > tr.boxRight
                 popupDecoration ==
                   IF positionRight
                     THEN LET linkRightCoords == coordsAtPos(Value(range).to)
                              linkRightPos == tr.boxRight - linkRightCoords.right
                          IN  DecorationWidget(Value(range).to,
                                               linkPopup(attrs, Some(linkRightPos)))
                     ELSE DecorationWidget(Value(range).from, linkPopup(attrs, Undefined))
             IN  <<popupDecoration>>
        ELSE <<>>

\* ------------------------------------------------------------- the machine

Pending(inv) == { i \in ProviderIndex : inv.results[i] = "pending" }

Replace(inv, new) == (loads (-) SetToBag({inv})) (+) SetToBag({new})

Remove(inv) == loads (-) SetToBag({inv})

Init ==
  /\ sources = Undefined
  /\ fuse = Undefined
  /\ writable = Undefined
  /\ provItems = [i \in ProviderIndex |-> <<>>]
  /\ provFiles \in [ProviderIndex -> FileLists]
  /\ loads = EmptyBag
  /\ last = "none"
  /\ bib = NoCall
  /\ warnings = [i \in ProviderIndex |-> Undefined]
  /\ enabled = [i \in ProviderIndex |-> TRUE]
  /\ arrival = <<>>
  /\ lastQuery = "none"
  /\ linkTr = Undefined
  /\ linkPopups = state_init
  /\ paneOpen = FALSE
  /\ zoteroDataDir_ = ""
  /\ detectedZoteroDataDir_ = ""
  /\ detection = "none"
  /\ stateZoteroDataDir = ""
  /\ listCapabilities = Undefined
  /\ listNode = Undefined
  /\ listToken = Undefined
  /\ listAttrs = Undefined

\* The providers load() is started on when the enabled ones are picked.
LoadTargets_enabled == { i \in ProviderIndex : enabled[i] }

\* this.providers.map(provider => provider.load(...)): the providers load()
\* is started on.
LoadTargets == ProviderIndex

\* A caller invokes load(): load() is started on every provider and the
\* invocation suspends at the await.
LoadStart ==
  /\ BagCardinality(loads) < MaxLoads
  /\ loads' = loads (+) SetToBag({[pc |-> "awaiting",
                                   results |-> [i \in ProviderIndex |->
                                                  IF i \in LoadTargets
                                                    THEN "pending" ELSE "skipped"]]})
  /\ UNCHANGED <<sources, fuse, writable, provItems, provFiles, last, bib>>

\* The load() of providers[i] started by invocation inv resolves: the
\* provider now holds `new' and reports whether that is a change.  The
\* result is dropped if the invocation has rejected already.
ProviderLoadResolve(inv, i, new) ==
  /\ inv.results[i] = "pending"
  /\ provItems' = [provItems EXCEPT ![i] = new]
  /\ LET changed == IF new # provItems[i] THEN "true" ELSE "false"
     IN  IF inv.pc = "awaiting"
           THEN loads' = Replace(inv, [inv EXCEPT !.results[i] = changed])
           ELSE IF Pending(inv) = {i}
                  THEN loads' = Remove(inv)
                  ELSE loads' = Replace(inv, [inv EXCEPT !.results[i] = "settled"])
  /\ UNCHANGED <<sources, fuse, writable, provFiles, last, bib>>

\* The load() of providers[i] started by invocation inv rejects.  If load()
\* is still awaiting, Promise.all rejects at once and so does load(): the
\* continuation never runs.  The other providers' loads go on.
ProviderLoadReject(inv, i) ==
  /\ inv.results[i] = "pending"
  /\ IF Pending(inv) = {i}
       THEN loads' = Remove(inv)
       ELSE loads' = Replace(inv,
                       [pc |-> "orphaned",
                        results |-> [j \in ProviderIndex |->
                                       IF j # i /\ inv.results[j] = "pending"
                                         THEN "pending" ELSE "settled"]])
  /\ last' = IF inv.pc = "awaiting" THEN "rejected" ELSE last
  /\ UNCHANGED <<sources, fuse, writable, provItems, provFiles, bib>>

\* Every provider's load() of invocation inv has resolved: load() resumes
\* after the await and runs to its end.
LoadCommit(inv) ==
  /\ inv.pc = "awaiting"
  /\ Pending(inv) = {}
  /\ LET after == LoadContinuation(inv.results)
     IN  /\ writable' = after.writable
         /\ sources' = after.sources
         /\ fuse' = after.fuse
  /\ loads' = Remove(inv)
  /\ last' = IF \E i \in ProviderIndex : inv.results[i] = "true"
               THEN "rebuilt" ELSE "unchanged"
  /\ UNCHANGED <<provItems, provFiles, bib>>

\* The bibliography files of providers[i] change on disk.
FilesChange(i, files) ==
  /\ files # provFiles[i]
  /\ provFiles' = [provFiles EXCEPT ![i] = files]
  /\ UNCHANGED <<sources, fuse, writable, provItems, loads, last, bib>>

Next ==
  \/ LoadStart /\ UNCHANGED <<observerVars, editorVars>>
  \/ \E inv \in BagToSet(loads) : \E i \in ProviderIndex :
       \E new \in ItemLists(i) :
         ProviderLoadResolve(inv, i, new) /\ UNCHANGED <<observerVars, editorVars>>
  \/ \E inv \in BagToSet(loads) : \E i \in ProviderIndex :
       ProviderLoadReject(inv, i) /\ UNCHANGED <<observerVars, editorVars>>
  \/ \E inv \in BagToSet(loads) : LoadCommit(inv) /\ UNCHANGED <<observerVars, editorVars>>
  \/ \E i \in ProviderIndex : \E files \in FileLists :
       FilesChange(i, files) /\ UNCHANGED <<observerVars, editorVars>>

Spec == Init /\ [][Next]_vars

\* ------------------------------------------------- one load() at a time

\* The manager as a caller drives it that awaits each load() before it calls
\* the next: the steps are those of Next, and the order in which the
\* providers' Promises resolve is recorded.
NextOneLoad ==
  \/ /\ loads = EmptyBag
     /\ LoadStart
     /\ arrival' = <<>>
     /\ UNCHANGED <<warnings, enabled, lastQuery, editorVars>>
  \/ \E inv \in BagToSet(loads) : \E i \in ProviderIndex :
       \E new \in ItemLists(i) :
         /\ ProviderLoadResolve(inv, i, new)
         /\ arrival' = Append(arrival, i)
         /\ UNCHANGED <<warnings, enabled, lastQuery, editorVars>>
  \/ \E inv \in BagToSet(loads) : \E i \in ProviderIndex :
       ProviderLoadReject(inv, i) /\ UNCHANGED <<observerVars, editorVars>>
  \/ \E inv \in BagToSet(loads) : LoadCommit(inv) /\ UNCHANGED <<observerVars, editorVars>>
  \/ \E i \in ProviderIndex : \E files \in FileLists :
       FilesChange(i, files) /\ UNCHANGED <<observerVars, editorVars>>

SpecOneLoad == Init /\ [][NextOneLoad]_vars

\* A provider is switched on or off; isEnabled() answers accordingly.
EnabledChange(i) ==
  /\ enabled' = [enabled EXCEPT ![i] = ~enabled[i]]
  /\ UNCHANGED <<managerVars, bib, warnings, arrival, lastQuery, editorVars>>

\* One load() at a time, with providers switched on and off meanwhile.
NextEnabled ==
  \/ NextOneLoad
  \/ \E i \in ProviderIndex : EnabledChange(i)

SpecEnabled == Init /\ [][NextEnabled]_vars

\* ------------------------------------------------------- callers' queries

\* The query methods, each with the arguments it is called with here.
QueryNames ==
  { "allSources", "hasSources", "sourcesForProvider", "sourcesForProviderCollection",
    "localSources", "isWritable", "search", "searchAllSources", "searchProvider",
    "searchProviderCollection", "findIdInLocalBibliography",
    "findDoiInLocalBibliography", "warning", "warningForProvider" }

\* What the query returns; a boolean is wrapped like an optional value.
QueryResult(name) ==
  CASE name = "allSources" -> allSources
    [] name = "hasSources" -> Some(hasSources)
    [] name = "sourcesForProvider" -> sourcesForProvider(kZoteroProviderKey)
    [] name = "sourcesForProviderCollection" ->
         sourcesForProviderCollection(kZoteroProviderKey, "c1")
    [] name = "localSources" -> localSources
    [] name = "isWritable" -> Some(isWritable)
    [] name = "search" -> search(Undefined, Some(kZoteroProviderKey), Undefined)
    [] name = "searchAllSources" -> searchAllSources(Ids[1], kSearchLimit)
    [] name = "searchProvider" -> searchProvider(Ids[1], kSearchLimit, kZoteroProviderKey)
    [] name = "searchProviderCollection" ->
         searchProviderCollection(Ids[1], kSearchLimit, kZoteroProviderKey, "c1")
    [] name = "findIdInLocalBibliography" -> findIdInLocalBibliography(Ids[1])
    [] name = "findDoiInLocalBibliography" -> findDoiInLocalBibliography(Dois[1])
    [] name = "warning" -> warning
    [] name = "warningForProvider" -> warningForProvider(Some(kZoteroProviderKey))

\* A query that keeps what allSources() computed as the merged set.
QueryEffect_caching(name) ==
  [ sources  |-> IF IsDefined(sources) THEN Some(allSources) ELSE sources,
    fuse     |-> fuse,
    writable |-> writable ]

\* The manager's fields after the query has run: none of the query methods
\* assigns to a field of the manager.
QueryEffect(name) ==
  [ sources  |-> sources,
    fuse     |-> fuse,
    writable |-> writable ]

\* A caller runs a query method; it runs to its end in one step.
Query(name) ==
  /\ lastQuery' = name
  /\ LET after == QueryEffect(name)
     IN  /\ sources' = after.sources
         /\ fuse' = after.fuse
         /\ writable' = after.writable
  /\ UNCHANGED <<provItems, provFiles, loads, last, bib, warnings, enabled, arrival, editorVars>>

\* The manager with one load() awaited at a time and callers that run
\* queries at any moment, also between the steps of a load().
NextQueries ==
  \/ /\ loads = EmptyBag
     /\ LoadStart
     /\ lastQuery' = "none"
     /\ UNCHANGED <<warnings, enabled, arrival, editorVars>>
  \/ \E inv \in BagToSet(loads) : \E i \in ProviderIndex :
       \E new \in ItemLists(i) :
         ProviderLoadResolve(inv, i, new) /\ UNCHANGED <<observerVars, editorVars>>
  \/ \E inv \in BagToSet(loads) : \E i \in ProviderIndex :
       ProviderLoadReject(inv, i) /\ UNCHANGED <<observerVars, editorVars>>
  \/ \E inv \in BagToSet(loads) : LoadCommit(inv) /\ UNCHANGED <<observerVars, editorVars>>
  \/ \E i \in ProviderIndex : \E files \in FileLists :
       FilesChange(i, files) /\ UNCHANGED <<observerVars, editorVars>>
  \/ \E name \in QueryNames : Query(name)

SpecQueries == Init /\ [][NextQueries]_vars

\* --------------------------------------------- the generateBibLaTeX machine

\* A caller invokes generateBibLaTeX(ui, id, csl, provider) and the body runs:
\* the call either waits for the provider's Promise or is resolved with the
\* generic entry.
GenerateBibLaTeX(id, csl, provider) ==
  /\ bib.pc # "awaiting"
  /\ LET returned == generateBibLaTeX(id, csl, provider)
     IN  bib' = IF returned.type = "promise"
                  THEN [pc |-> "awaiting", id |-> id, csl |-> csl, provider |-> provider,
                        asked |-> returned.of, answer |-> Undefined, result |-> Undefined]
                  ELSE [pc |-> "resolved", id |-> id, csl |-> csl, provider |-> provider,
                        asked |-> 0, answer |-> Undefined,
                        result |-> Some(toBibLaTeX(id, csl))]
  /\ UNCHANGED managerVars

\* The provider's Promise resolves, and with it the Promise of the call.
ProviderBibLaTeXResolve ==
  /\ bib.pc = "awaiting"
  /\ \E answer \in ProviderAnswers(bib.asked, bib.id, bib.csl) :
       bib' = [bib EXCEPT !.pc = "resolved", !.answer = answer, !.result = answer]
  /\ UNCHANGED managerVars

\* The provider's Promise rejects, and with it the Promise of the call.
ProviderBibLaTeXReject ==
  /\ bib.pc = "awaiting"
  /\ bib' = [bib EXCEPT !.pc = "rejected"]
  /\ UNCHANGED managerVars

NextBibLaTeX ==
  \/ \E k \in 1..Len(Ids) : \E title \in Titles : \E provider \in ProviderArguments :
       GenerateBibLaTeX(Ids[k], [title |-> title], provider) /\ UNCHANGED <<observerVars, editorVars>>
  \/ ProviderBibLaTeXResolve /\ UNCHANGED <<observerVars, editorVars>>
  \/ ProviderBibLaTeXReject /\ UNCHANGED <<observerVars, editorVars>>

SpecBibLaTeX == Init /\ [][NextBibLaTeX]_vars

\* ------------------------------------------------- the providers' warnings

\* What a provider's warningMessage() may return: nothing, the empty text,
\* or a message.
WarningMessages ==
  { Undefined, Some(""), Some("Unable to read bibliography"), Some("Zotero is not configured") }

\* providers[i] starts to return another value from warningMessage().
WarningChange(i, message) ==
  /\ message # warnings[i]
  /\ warnings' = [warnings EXCEPT ![i] = message]
  /\ UNCHANGED <<managerVars, bib, enabled, arrival, lastQuery, editorVars>>

\* The calls the manager forwards to one provider, and the providers'
\* warnings changing under them.
NextProviderCalls ==
  \/ NextBibLaTeX
  \/ \E i \in ProviderIndex : \E message \in WarningMessages : WarningChange(i, message)

SpecProviderCalls == Init /\ [][NextProviderCalls]_vars

\* ------------------------------------------------- the link popup plugin

\* The editor applies a transaction: the plugin's apply computes its state.
ApplyTransaction(tr) ==
  /\ linkPopups' = state_apply(tr, linkPopups)
  /\ linkTr' = Some(tr)
  /\ UNCHANGED <<managerVars, bib, observerVars, paneVars, listVars>>

NextLinkPopup == \E tr \in Transactions : ApplyTransaction(tr)

SpecLinkPopup == Init /\ [][NextLinkPopup]_vars

\* ------------------------------------------- the R Markdown preferences

\* The directories the server can detect as Zotero's data directory.
DetectableDirs == { "/home/u/Zotero", "/data/zotero" }

\* The texts the directory box can hold: nothing, a detectable directory, or
\* another directory.
BoxTexts == { "" } \cup DetectableDirs \cup { "/tmp/library" }

\* The constructor of the pane: the directory box shows the persisted
\* directory, and the request for the detected directory is sent.
OpenPane ==
  /\ ~paneOpen
  /\ paneOpen' = TRUE
  /\ detectedZoteroDataDir_' = ""
  /\ zoteroDataDir_' = IF stateZoteroDataDir # "" THEN stateZoteroDataDir ELSE ""
  /\ detection' = "pending"
  /\ UNCHANGED <<stateZoteroDataDir, managerVars, bib, observerVars, linkVars, listVars>>

\* onResponseReceived of the zoteroDetectDataDirectory callback
OnResponseReceived(directory) ==
  /\ paneOpen
  /\ detection = "pending"
  /\ detection' = "received"
  /\ detectedZoteroDataDir_' = directory
  /\ zoteroDataDir_' = IF zoteroDataDir_ = "" THEN directory ELSE zoteroDataDir_
  /\ UNCHANGED <<paneOpen, stateZoteroDataDir, managerVars, bib, observerVars, linkVars, listVars>>

\* onError of the zoteroDetectDataDirectory callback
OnError ==
  /\ paneOpen
  /\ detection = "pending"
  /\ detection' = "failed"
  /\ UNCHANGED <<paneOpen, zoteroDataDir_, detectedZoteroDataDir_, stateZoteroDataDir,
                 managerVars, bib, observerVars, linkVars, listVars>>

\* The user types or chooses a directory in the box.
EditBox(text) ==
  /\ paneOpen
  /\ text # zoteroDataDir_
  /\ zoteroDataDir_' = text
  /\ UNCHANGED <<paneOpen, detectedZoteroDataDir_, detection, stateZoteroDataDir,
                 managerVars, bib, observerVars, linkVars, listVars>>

\* RMarkdownPreferencesPane.onApply: the directory it persists.
PersistedOnApply ==
  IF zoteroDataDir_ = detectedZoteroDataDir_ THEN "" ELSE zoteroDataDir_

\* RMarkdownPreferencesPane.onApply
OnApply ==
  /\ paneOpen
  /\ stateZoteroDataDir' = PersistedOnApply
  /\ UNCHANGED <<paneOpen, zoteroDataDir_, detectedZoteroDataDir_, detection,
                 managerVars, bib, observerVars, linkVars, listVars>>

\* The dialog is closed; a response that arrives later finds no pane to show
\* it in.
ClosePane ==
  /\ paneOpen
  /\ paneOpen' = FALSE
  /\ zoteroDataDir_' = ""
  /\ detectedZoteroDataDir_' = ""
  /\ detection' = "none"
  /\ UNCHANGED <<stateZoteroDataDir, managerVars, bib, observerVars, linkVars, listVars>>

NextPreferences ==
  \/ OpenPane
  \/ \E directory \in DetectableDirs : OnResponseReceived(directory)
  \/ OnError
  \/ \E text \in BoxTexts : EditBox(text)
  \/ OnApply
  \/ ClosePane

SpecPreferences == Init /\ [][NextPreferences]_vars

\* ------------------------------------------------------- ordered lists

\* The largest number an ordered list starts at.
MaxOrder == 2

LIST_ATTRIBS == 0
LIST_CHILDREN == 1

LIST_ATTRIB_ORDER == 0
LIST_ATTRIB_NUMBER_STYLE == 1
LIST_ATTRIB_NUMBER_DELIM == 2

kListItemExampleSentinel == "20543127-1873-4833-AC49-5B352CFA2AF5"

\* array[index] of an array, whose first element has the index 0
At(array, index) == array[index + 1]

\* The number styles and delimiters of a list: the members the list code
\* names, and some of the others.
ListNumberStyle == { "DefaultStyle", "Decimal", "LowerRoman", "Example" }

ListNumberDelim == { "DefaultDelim", "Period", "OneParen", "TwoParens" }

\* The capabilities of the format that the list code reads.
ListCapabilities == [ order : BOOLEAN, fancy : BOOLEAN, example : BOOLEAN ]

\* The ordered_list nodes: their attributes, and how many list items, each
\* of one paragraph, they hold.
OrderedListNodes ==
  [ order : 1..MaxOrder, number_style : ListNumberStyle,
    number_delim : ListNumberDelim, tight : BOOLEAN, items : {0, 1} ]

\* listNodeOptions
listNodeOptions(node, capabilities) ==
  [ tight |-> node.tight,
    example |-> IF capabilities.example THEN node.number_style = "Example" ELSE FALSE ]

\* writeListItemInlines, for the first block of an item without text
writeListItemInlines(example) ==
  IF example THEN << [ t |-> "Str", c |-> kListItemExampleSentinel ] >> ELSE << >>

\* writePandocListItem, for an item of one paragraph that is not a task
writePandocListItem(options) ==
  << [ t |-> IF options.tight THEN "Plain" ELSE "Para",
       c |-> writeListItemInlines(options.example) ] >>

\* A writer that writes the attributes of the node whatever the format can
\* express.
writePandocOrderedList_uncapped(capabilities, node) ==
  LET options == listNodeOptions(node, capabilities)
      delim == IF options.example THEN "TwoParens" ELSE node.number_delim
  IN  [ t |-> "OrderedList",
        c |-> << << node.order, [ t |-> node.number_style ], [ t |-> delim ] >>,
                 [ item \in 1..node.items |-> writePandocListItem(options) ] >> ]

\* writePandocOrderedList: the token written for a node
writePandocOrderedList(capabilities, node) ==
  LET options == listNodeOptions(node, capabilities)
      delim == IF options.example THEN "TwoParens" ELSE node.number_delim
  IN  [ t |-> "OrderedList",
        c |-> << << IF capabilities.order THEN node.order ELSE 1,
                    [ t |-> IF capabilities.fancy THEN node.number_style
                                                  ELSE "DefaultStyle" ],
                    [ t |-> IF capabilities.fancy THEN delim ELSE "DefaultDelim" ] >>,
                 [ item \in 1..node.items |-> writePandocListItem(options) ] >> ]

\* readPandocList for the ordered_list node type: the attributes of the node
\* opened for a token. A tight that JavaScript leaves as the number 0 is
\* FALSE here.
readPandocList(capabilities, tok) ==
  LET attribs == At(tok.c, LIST_ATTRIBS)
      children == At(tok.c, LIST_CHILDREN)
  IN  [ order |-> IF capabilities.order THEN At(attribs, LIST_ATTRIB_ORDER) ELSE 1,
        number_style |-> IF capabilities.fancy
                           THEN At(attribs, LIST_ATTRIB_NUMBER_STYLE).t
                           ELSE "DefaultStyle",
        number_delim |-> IF capabilities.fancy
                           THEN At(attribs, LIST_ATTRIB_NUMBER_DELIM).t
                           ELSE "DefaultDelim",
        tight |-> /\ Len(children) # 0
                  /\ Len(At(children, 0)) # 0
                  /\ At(At(children, 0), 0).t = "Plain" ]

\* A format's writer for ordered lists is made and writes a node.
WriteOrderedList(capabilities, node) ==
  /\ listToken = Undefined
  /\ listCapabilities' = Some(capabilities)
  /\ listNode' = Some(node)
  /\ listToken' = Some(writePandocOrderedList(capabilities, node))
  /\ listAttrs' = Undefined
  /\ UNCHANGED <<managerVars, bib, observerVars, linkVars, paneVars>>

\* The same format's reader reads the token that was written.
ReadOrderedList ==
  /\ IsDefined(listToken)
  /\ listAttrs = Undefined
  /\ listAttrs' = Some(readPandocList(Value(listCapabilities), Value(listToken)))
  /\ UNCHANGED <<listCapabilities, listNode, listToken,
                 managerVars, bib, observerVars, linkVars, paneVars>>

NextLists ==
  \/ \E capabilities \in ListCapabilities, node \in OrderedListNodes :
       WriteOrderedList(capabilities, node)
  \/ ReadOrderedList

SpecLists == Init /\ [][NextLists]_vars

\* ------------------------------------------------------------------ claims

\* The step in which invocation inv runs the continuation of load(): all its
\* providers have resolved and it leaves the invocations in flight.
IsCommitOf(inv) ==
  /\ inv.pc = "awaiting"
  /\ Pending(inv) = {}
  /\ loads' = Remove(inv)

\* The step in which the load() of providers[i] rejects and invocation inv,
\* still awaiting, rejects with it.
IsRejectionOf(inv, i) ==
  /\ inv.pc = "awaiting"
  /\ inv.results[i] = "pending"
  /\ last' = "rejected"
  /\ loads' # loads
  /\ provItems' = provItems
  /\ \/ loads' = Remove(inv)
     \/ \E orphan \in BagToSet(loads') : orphan.pc = "orphaned" /\ loads' = Replace(inv, orphan)

\* The items of the first-registered provider followed by those of the second.
ItemsInRegistrationOrder == provItems[1] \o provItems[2]

\* The files of the first-registered provider followed by those of the second.
FilesOfAllProviders == provFiles[1] \o provFiles[2]

IsLocal(source) == source.providerKey = "local"

\* C1: a load() whose providers all resolved false leaves the merged set and
\* the index as they were: its continuation neither merges nor rebuilds.
C1_NoChangeNoRebuild ==
  [][\A inv \in BagToSet(loads) :
       (IsCommitOf(inv) /\ \A i \in ProviderIndex : inv.results[i] = "false")
         => (sources' = sources /\ fuse' = fuse)]_vars

\* A load() that found no change has finished while a non-empty merged set
\* was held.
C1_Witness ==
  /\ last = "unchanged"
  /\ IsDefined(sources)
  /\ Len(Value(sources)) > 0
  /\ fuse = sources

\* C2: a load() of which at least one provider resolved true ends with the
\* merged set being the items of all providers in registration order, and
\* with the index built from exactly that list.
C2_MergeAllInRegistrationOrder ==
  [][\A inv \in BagToSet(loads) :
       (IsCommitOf(inv) /\ \E i \in ProviderIndex : inv.results[i] = "true")
         => /\ sources' = Some(ItemsInRegistrationOrder)
            /\ fuse' = Some(ItemsInRegistrationOrder)
            /\ \A a, b \in 1..Len(Value(sources')) :
                 (a < b /\ IsLocal(Value(sources')[b])) => IsLocal(Value(sources')[a])]_vars

\* A rebuilding load() has finished and the merged set holds items of both
\* providers.
C2_Witness ==
  /\ last = "rebuilt"
  /\ Len(provItems[1]) > 0
  /\ Len(provItems[2]) > 0
  /\ sources = Some(ItemsInRegistrationOrder)

\* C3: at most one load() invocation is awaiting its providers at any time.
C3_OneLoadAtATime ==
  \A inv, other \in BagToSet(loads) :
    (inv.pc = "awaiting" /\ other.pc = "awaiting")
      => (inv = other /\ CopiesIn(inv, loads) = 1)

\* C4: when one provider's load() rejects and every other provider's has
\* resolved, load() still notes the writability and, if another provider
\* resolved true, merges the items and rebuilds the index.
C4_FailingProviderIsolated ==
  [][\A inv \in BagToSet(loads) : \A i \in ProviderIndex :
       (IsRejectionOf(inv, i) /\ Pending(inv) = {i})
         => /\ writable' = Some(shouldAllowWrites)
            /\ (\E j \in ProviderIndex : inv.results[j] = "true")
                 => (sources' = Some(ItemsInRegistrationOrder)
                     /\ fuse' = Some(ItemsInRegistrationOrder))]_vars

\* C5: the merged set, the index and the writability flag change only
\* together, in one step that is a whole commit of a load(): after it the
\* flag is the policy's value, and the merged set and the index are either
\* both the old ones or both built from the items all providers hold at that
\* moment.  What a query reads between two steps is one or the other.
C5_AtomicPublication ==
  [][ (sources' # sources \/ fuse' # fuse \/ writable' # writable)
        => /\ \E inv \in BagToSet(loads) : IsCommitOf(inv)
           /\ writable' = Some(FilesOfAllProviders = <<>>
                               \/ \E k \in 1..Len(FilesOfAllProviders) :
                                    FilesOfAllProviders[k].writable)
           /\ \/ sources' = sources /\ fuse' = fuse
              \/ sources' = Some(ItemsInRegistrationOrder) /\ fuse' = sources' ]_vars

\* A merged set that replaced an earlier, different one is in place while
\* another load() is awaiting its providers.
C5_Witness ==
  /\ last = "rebuilt"
  /\ IsDefined(sources)
  /\ fuse = sources
  /\ \E inv \in BagToSet(loads) : inv.pc = "awaiting" /\ Pending(inv) # ProviderIndex

\* C6: the continuation of load() leaves isWritable() true exactly when the
\* providers report no bibliography file or at least one writable file.
C6_WritableIffNoFileOrAWritableFile ==
  [][\A inv \in BagToSet(loads) :
       IsCommitOf(inv)
         => (isWritable' <=> (FilesOfAllProviders = <<>>
                              \/ \E k \in 1..Len(FilesOfAllProviders) :
                                   FilesOfAllProviders[k].writable))]_vars

\* A load() has finished, nothing is in flight, the providers report a
\* writable and a read-only file, and the manager is writable.
C6_Witness ==
  /\ last \in {"unchanged", "rebuilt"}
  /\ loads = EmptyBag
  /\ \E k \in 1..Len(FilesOfAllProviders) : FilesOfAllProviders[k].writable
  /\ \E k \in 1..Len(FilesOfAllProviders) : ~FilesOfAllProviders[k].writable
  /\ isWritable

\* C7: allSources() is the merged set when the manager is writable, and the
\* local provider's records of the merged set, in order, when it is not.
C7_AllSourcesGate ==
  /\ isWritable => allSources = MergedSet
  /\ ~isWritable =>
       /\ allSources = SelectSeq(MergedSet, IsLocal)
       /\ \A k \in 1..Len(allSources) : allSources[k].providerKey = "local"

\* The manager is not writable and the merged set holds a local and a Zotero
\* record.
C7_Witness ==
  /\ writable = Some(FALSE)
  /\ \E k \in 1..Len(MergedSet) : MergedSet[k].providerKey = "local"
  /\ \E k \in 1..Len(MergedSet) : MergedSet[k].providerKey = "zotero"
  /\ Len(allSources) < Len(MergedSet)

\* What the index returns for a query text, within the limit of search().
IndexMatches(query) ==
  IF IsDefined(fuse)
    THEN Take(SelectSeq(Value(fuse), LAMBDA document : document.id = query), kSearchLimit)
    ELSE <<>>

\* C8: search(query) returns every index match when the manager is writable
\* and exactly the local provider's index matches when it is not.
C8_SearchGatedLikeAllSources ==
  \A query \in Queries \ {""} :
    /\ isWritable => search(Some(query), Undefined, Undefined) = IndexMatches(query)
    /\ ~isWritable =>
         search(Some(query), Undefined, Undefined) = SelectSeq(IndexMatches(query), IsLocal)

\* C9: a generateBibLaTeX() call for a registered provider that resolved to
\* nothing resolves to the generic formatter's entry.
C9_DecliningProviderFallsBack ==
  (bib.pc = "resolved" /\ bib.asked # 0 /\ bib.answer = Undefined)
    => bib.result = Some(toBibLaTeX(bib.id, bib.csl))

\* C10: a load() that finishes while the providers report files that are all
\* read-only leaves allSources() holding local records only, and leaves the
\* merged set as it was if no provider resolved true.
C10_WritabilityRecomputedOnEveryLoad ==
  [][\A inv \in BagToSet(loads) :
       (/\ IsCommitOf(inv)
        /\ FilesOfAllProviders # <<>>
        /\ \A k \in 1..Len(FilesOfAllProviders) : ~FilesOfAllProviders[k].writable)
         => /\ ~isWritable'
            /\ \A k \in 1..Len(allSources') : allSources'[k].providerKey = "local"
            /\ (\A i \in ProviderIndex : inv.results[i] = "false") => sources' = sources]_vars

\* A load() that found no change has finished, the merged set it left alone
\* holds a Zotero record, the files are all read-only, and allSources() holds
\* no Zotero record.
C10_Witness ==
  /\ last = "unchanged"
  /\ loads = EmptyBag
  /\ \E k \in 1..Len(MergedSet) : MergedSet[k].providerKey = "zotero"
  /\ FilesOfAllProviders # <<>>
  /\ \A k \in 1..Len(FilesOfAllProviders) : ~FilesOfAllProviders[k].writable
  /\ \A k \in 1..Len(allSources) : allSources[k].providerKey = "local"

\* C11: isWritable() returns the value stored by the most recent load that
\* committed; it changes only in a step where a load commits, and a change of
\* the bibliography files between loads leaves it as it was.
C11_WritableChangesOnlyOnCommit ==
  [][/\ (isWritable' # isWritable) => \E inv \in BagToSet(loads) : IsCommitOf(inv)
     /\ (provFiles' # provFiles) => (isWritable' = isWritable)]_vars

\* A load committed while a file was writable, the files have since become
\* read-only, and isWritable() still answers true.
C11_Witness ==
  /\ last \in {"unchanged", "rebuilt"}
  /\ writable = Some(TRUE)
  /\ FilesOfAllProviders # <<>>
  /\ \A k \in 1..Len(FilesOfAllProviders) : ~FilesOfAllProviders[k].writable
  /\ isWritable
  /\ ~shouldAllowWrites

\* The arguments the queries are tried with: the query texts and no text at
\* all, the keys of the registered providers and one of no provider, the
\* collections of the records and one of no record.
QueryArguments == { Undefined } \cup { Some(query) : query \in Queries }

ProviderKeys == { providers[i] : i \in ProviderIndex } \cup { "mendeley" }

CollectionKeys == { "c1", "c2", "c9" }

InCollection(record, collectionKey) == Includes(record.collectionKeys, collectionKey)

\* C12: for every query text (or none), provider key P and collection key C,
\* search(query, P, C) is search(query, P) restricted, in the same order, to
\* the records whose collectionKeys contains C.
C12_CollectionScopeRestrictsProviderScope ==
  \A query \in QueryArguments : \A P \in ProviderKeys : \A C \in CollectionKeys :
    search(query, Some(P), Some(C))
      = SelectSeq(search(query, Some(P), Undefined),
                  LAMBDA record : InCollection(record, C))

\* A search by text within a provider finds a record; it is in collection c1
\* and not in collection c2, so the collection scope keeps it or drops it.
C12_Witness ==
  /\ isWritable
  /\ search(Some(Ids[1]), Some(kZoteroProviderKey), Undefined) # <<>>
  /\ search(Some(Ids[1]), Some(kZoteroProviderKey), Some("c1")) # <<>>
  /\ search(Some(Ids[1]), Some(kZoteroProviderKey), Some("c2")) = <<>>

\* A call without query text: the argument is left out or is the empty text.
NoQueryText == { Undefined, Some("") }

\* C13: search() without query text filters allSources() directly: with a
\* provider key only it returns the records of allSources() of that provider,
\* with a provider key and a collection key those of that provider that are
\* in the collection, and with neither allSources() itself, the merged set
\* behind the writability gate.
C13_SearchWithoutTextFiltersAllSources ==
  \A query \in NoQueryText :
    /\ \A P \in ProviderKeys :
         /\ search(query, Some(P), Undefined)
              = SelectSeq(allSources, LAMBDA record : record.providerKey = P)
         /\ \A C \in CollectionKeys :
              search(query, Some(P), Some(C))
                = SelectSeq(allSources,
                    LAMBDA record : record.providerKey = P /\ InCollection(record, C))
    /\ search(query, Undefined, Undefined) = allSources
    /\ allSources = IF isWritable THEN MergedSet ELSE SelectSeq(MergedSet, IsLocal)

\* Both providers have records in a writable merged set: the provider scope
\* returns a proper part of allSources(), the collection scope keeps or drops
\* that part.
C13_Witness ==
  /\ isWritable
  /\ search(Undefined, Some(kZoteroProviderKey), Undefined) # <<>>
  /\ Len(search(Undefined, Some(kZoteroProviderKey), Undefined)) < Len(allSources)
  /\ search(Undefined, Some(kZoteroProviderKey), Some("c1")) # <<>>
  /\ search(Undefined, Some(kZoteroProviderKey), Some("c2")) = <<>>
  /\ search(Undefined, Undefined, Undefined) = MergedSet

\* Optional keys as callers pass them: left out, or one of the keys above.
OptionalProviderKeys == { Undefined } \cup { Some(P) : P \in ProviderKeys }

OptionalCollectionKeys == { Undefined } \cup { Some(C) : C \in CollectionKeys }

\* C14: while no load() has committed a merged set, every query answers
\* empty: search with or without text and with any scope returns the empty
\* sequence, allSources() is empty, hasSources() is false, and the two
\* find...InLocalBibliography return nothing.
C14_UnloadedQueriesAnswerEmpty ==
  (sources = Undefined) =>
    /\ \A query \in QueryArguments : \A P \in OptionalProviderKeys :
         \A C \in OptionalCollectionKeys : search(query, P, C) = <<>>
    /\ allSources = <<>>
    /\ ~hasSources
    /\ localSources = <<>>
    /\ \A P \in ProviderKeys :
         /\ sourcesForProvider(P) = <<>>
         /\ \A C \in CollectionKeys : sourcesForProviderCollection(P, C) = <<>>
    /\ \A k \in 1..Len(Ids) : findIdInLocalBibliography(Ids[k]) = Undefined
    /\ \A k \in 1..Len(Dois) : findDoiInLocalBibliography(Dois[k]) = Undefined

\* No merged set is stored although a load() has run its continuation, the
\* manager is writable and the local provider holds a record.
C14_Witness ==
  /\ sources = Undefined
  /\ last = "unchanged"
  /\ writable = Some(TRUE)
  /\ provItems[1] # <<>>
  /\ search(Some(Ids[1]), Undefined, Undefined) = <<>>

\* The key names one of the registered providers.
IsRegistered(P) == \E i \in ProviderIndex : providers[i] = P

\* A record of provider P in the merged set belongs to collection C.
HoldsRecord(P, C) ==
  \E k \in 1..Len(MergedSet) :
    MergedSet[k].providerKey = P /\ InCollection(MergedSet[k], C)

\* C15: a provider key that names no registered provider, or a collection key
\* that no record of the named provider belongs to, makes search (with or
\* without query text), sourcesForProvider and sourcesForProviderCollection
\* return the empty sequence.
C15_ScopeMissAnswersEmpty ==
  \A P \in ProviderKeys : \A C \in CollectionKeys :
    /\ ~IsRegistered(P) =>
         /\ sourcesForProvider(P) = <<>>
         /\ sourcesForProviderCollection(P, C) = <<>>
         /\ \A query \in QueryArguments :
              /\ search(query, Some(P), Undefined) = <<>>
              /\ search(query, Some(P), Some(C)) = <<>>
    /\ ~HoldsRecord(P, C) =>
         /\ sourcesForProviderCollection(P, C) = <<>>
         /\ \A query \in QueryArguments : search(query, Some(P), Some(C)) = <<>>

\* A writable merged set in which a search by text finds a record of the
\* remote provider: the same search scoped to an unknown provider, or to a
\* collection the provider's records are not in, finds nothing.
C15_Witness ==
  /\ isWritable
  /\ search(Some(Ids[1]), Some(kZoteroProviderKey), Undefined) # <<>>
  /\ sourcesForProvider(kZoteroProviderKey) # <<>>
  /\ search(Some(Ids[1]), Some("mendeley"), Undefined) = <<>>
  /\ ~HoldsRecord(kZoteroProviderKey, "c9")
  /\ search(Some(Ids[1]), Some(kZoteroProviderKey), Some("c9")) = <<>>
  /\ sourcesForProviderCollection(kZoteroProviderKey, "c9") = <<>>

\* The limits the searches are tried with: from none of the records to all
\* the records the two providers can hold.
Limits == 0..(2 * MaxItems)

\* The query texts that are texts: search() takes "" for no text.
QueryTexts == Queries \ { "" }

\* All the documents of the index that match the query, best first.
AllMatches(query) ==
  IF IsDefined(fuse)
    THEN SelectSeq(Value(fuse), LAMBDA document : FuseMatches(document, query))
    ELSE <<>>

\* Whether `part' is `whole' with some elements left out, the order kept.
RECURSIVE IsSubsequence(_, _)
IsSubsequence(part, whole) ==
  IF part = <<>> THEN TRUE
  ELSE IF whole = <<>> THEN FALSE
  ELSE IF Head(part) = Head(whole)
         THEN IsSubsequence(Tail(part), Tail(whole))
         ELSE IsSubsequence(part, Tail(whole))

\* C16: a search with query text returns no more records than its limit:
\* search() at most 1000 for every scope, and searchAllSources,
\* searchProvider and searchProviderCollection at most `limit', taken from
\* the best `limit' matches of the index in the index's order.
C16_SearchBoundedByLimit ==
  \A query \in QueryTexts :
    /\ \A P \in OptionalProviderKeys : \A C \in OptionalCollectionKeys :
         Len(search(Some(query), P, C)) <= kSearchLimit
    /\ \A limit \in Limits :
         /\ Len(searchAllSources(query, limit)) <= limit
         /\ IsSubsequence(searchAllSources(query, limit), Take(AllMatches(query), limit))
         /\ \A P \in ProviderKeys :
              /\ Len(searchProvider(query, limit, P)) <= limit
              /\ IsSubsequence(searchProvider(query, limit, P),
                               Take(AllMatches(query), limit))
              /\ \A C \in CollectionKeys :
                   /\ Len(searchProviderCollection(query, limit, P, C)) <= limit
                   /\ IsSubsequence(searchProviderCollection(query, limit, P, C),
                                    Take(AllMatches(query), limit))

\* Both providers hold a record the query matches, the manager is writable,
\* and the limit cuts the two matches down to the first.
C16_Witness ==
  /\ isWritable
  /\ Len(AllMatches(Ids[1])) = 2
  /\ searchAllSources(Ids[1], 1) = <<AllMatches(Ids[1])[1]>>
  /\ Len(searchAllSources(Ids[1], 2)) = 2

\* The first of the records, in the order of the merged set, if there is one.
FirstOf(records) == IF records = <<>> THEN Undefined ELSE Some(records[1])

\* The local records of the merged set, in its order.
LocalRecords == SelectSeq(MergedSet, IsLocal)

\* C17: findIdInLocalBibliography and findDoiInLocalBibliography return the
\* first record of the merged set that is of the local provider and has the
\* id (the DOI), or nothing; they never return a record of a remote provider,
\* whether the manager is writable or not.
C17_FindOnlyInLocalRecords ==
  /\ \A k \in 1..Len(Ids) :
       /\ findIdInLocalBibliography(Ids[k])
            = FirstOf(SelectSeq(LocalRecords, LAMBDA record : record.id = Ids[k]))
       /\ IsDefined(findIdInLocalBibliography(Ids[k]))
            => Value(findIdInLocalBibliography(Ids[k])).providerKey = "local"
  /\ \A k \in 1..Len(Dois) :
       /\ findDoiInLocalBibliography(Dois[k])
            = FirstOf(SelectSeq(LocalRecords, LAMBDA record : record.DOI = Dois[k]))
       /\ IsDefined(findDoiInLocalBibliography(Dois[k]))
            => Value(findDoiInLocalBibliography(Dois[k])).providerKey = "local"

\* A writable merged set in which only the remote provider has a record with
\* the id and the DOI: both lookups return nothing.
C17_Witness ==
  /\ isWritable
  /\ \E k \in 1..Len(MergedSet) :
       /\ MergedSet[k].providerKey = kZoteroProviderKey
       /\ MergedSet[k].id = Ids[1]
       /\ MergedSet[k].DOI = Dois[1]
  /\ \A k \in 1..Len(MergedSet) : ~IsLocal(MergedSet[k])
  /\ findIdInLocalBibliography(Ids[1]) = Undefined
  /\ findDoiInLocalBibliography(Dois[1]) = Undefined

\* C18: warning() returns the warningMessage() of the first provider in
\* registration order that reports a warning, and nothing when none does;
\* warningForProvider(key) returns the warningMessage() of the provider with
\* that key, and nothing when the key is absent or names no provider.
C18_WarningOfFirstReportingProvider ==
  /\ \A i \in ProviderIndex :
       (Truthy(warnings[i]) /\ \A j \in ProviderIndex : j < i => ~Truthy(warnings[j]))
         => warning = warnings[i]
  /\ (\A i \in ProviderIndex : ~Truthy(warnings[i])) => warning = Undefined
  /\ \A i \in ProviderIndex : warningForProvider(Some(providers[i])) = warnings[i]
  /\ warningForProvider(Undefined) = Undefined
  /\ warningForProvider(Some("")) = Undefined
  /\ warningForProvider(Some("mendeley")) = Undefined

\* Both providers report a warning, each its own: warning() answers with the
\* local provider's, warningForProvider with the one asked for.
C18_Witness ==
  /\ Truthy(warnings[1])
  /\ Truthy(warnings[2])
  /\ warnings[1] # warnings[2]
  /\ warning = warnings[1]
  /\ warningForProvider(Some(kZoteroProviderKey)) = warnings[2]

\* The orders in which the loads of the two providers can resolve.
CompletionOrders == { <<1, 2>>, <<2, 1>> }

\* C19: for given results of the providers' loads, the outcome of load() is
\* the same whatever the order in which the providers' Promises resolved:
\* whether the merged set and the index are rebuilt, the order of the merged
\* set (registration order) and the writability value are determined by the
\* results, the providers' items and the files alone.
C19_OutcomeIndependentOfCompletionOrder ==
  [][\A inv \in BagToSet(loads) :
       IsCommitOf(inv)
         => /\ arrival \in CompletionOrders
            /\ LET rebuild == \E i \in ProviderIndex : inv.results[i] = "true"
               IN  /\ sources' = IF rebuild THEN Some(ItemsInRegistrationOrder) ELSE sources
                   /\ fuse' = IF rebuild THEN Some(ItemsInRegistrationOrder) ELSE fuse
            /\ writable' = Some(shouldAllowWrites)]_vars

\* The remote provider's load resolved before the local provider's, both
\* hold records, and the merged set built has the local records first.
C19_Witness ==
  /\ last = "rebuilt"
  /\ loads = EmptyBag
  /\ arrival = <<2, 1>>
  /\ provItems[1] # <<>>
  /\ provItems[2] # <<>>
  /\ sources = Some(ItemsInRegistrationOrder)
  /\ IsLocal(Head(Value(sources)))

\* The step is a run of the query `name': the caller has run it and nothing
\* outside the manager's three fields has moved.
IsQueryStep(name) ==
  /\ lastQuery' = name
  /\ UNCHANGED <<provItems, provFiles, loads, last, bib, warnings, enabled, arrival, editorVars>>

\* C20: every query operation is a pure read: it leaves the merged set, the
\* index and the writability flag as they were, also when it runs while a
\* load() is awaiting its providers.
C20_QueriesArePureReads ==
  [][\A name \in QueryNames :
       IsQueryStep(name) => (sources' = sources /\ fuse' = fuse /\ writable' = writable)]_vars

\* A search ran and found a record while a load() was awaiting a provider
\* after another had already resolved with changes.
C20_Witness ==
  /\ lastQuery = "searchAllSources"
  /\ QueryResult("searchAllSources") # <<>>
  /\ \E inv \in BagToSet(loads) :
       /\ inv.pc = "awaiting"
       /\ Pending(inv) # {}
       /\ \E i \in ProviderIndex : inv.results[i] = "true"

\* C21: with load() run one call at a time, whenever a load() has completed
\* without rejecting, the merged set is the concatenation of the providers'
\* current items in registration order (no merged set counting as the empty
\* one), also after earlier calls that rejected: a change a provider reported
\* in one call is not lost to the later calls.
C21_CommittedLoadHoldsCurrentItems ==
  (loads = EmptyBag /\ last \in {"unchanged", "rebuilt"})
    => MergedSet = ItemsInRegistrationOrder

\* C22: the search index and the merged set are in lockstep in every
\* reachable state: there is an index exactly when a merged set has been
\* committed, and the records the index was built from are the current
\* merged set.
C22_IndexInLockstepWithMergedSet ==
  /\ IsDefined(fuse) <=> IsDefined(sources)
  /\ IsDefined(fuse) => Value(fuse) = Value(sources)

\* A rebuild has replaced a merged set by a different one while another
\* load() is in flight, and the index holds the records of the new one.
C22_Witness ==
  /\ last = "rebuilt"
  /\ loads # EmptyBag
  /\ IsDefined(fuse)
  /\ Value(fuse) = MergedSet
  /\ Len(MergedSet) = 2

\* The manager's three fields are left as they were.
FieldsUnchanged == sources' = sources /\ fuse' = fuse /\ writable' = writable

\* C23: within one load() call, load() has been started on every registered
\* provider, enabled or not, when the call suspends; the manager reads the
\* providers' files and items and writes its writability, merged set and
\* index only once every provider's load() of the call has resolved, and
\* until then the call leaves the manager's fields as they were.
C23_StartAllThenAwaitAllThenWrite ==
  [][/\ \A inv \in BagToSet(loads') : \A i \in ProviderIndex :
          inv.results[i] # "skipped"
     /\ \A inv \in BagToSet(loads) :
          (inv.pc = "awaiting" /\ Pending(inv) # {}) => FieldsUnchanged
     /\ ~FieldsUnchanged
          => \E inv \in BagToSet(loads) :
               /\ IsCommitOf(inv)
               /\ \A i \in ProviderIndex : inv.results[i] \in {"true", "false"}
               /\ writable' = Some(shouldAllowWrites)]_vars

\* The load() of a provider that is switched off has resolved with a change
\* while the other provider's is pending, and the manager has no merged set
\* and no writability yet.
C23_Witness ==
  \E i \in ProviderIndex : \E inv \in BagToSet(loads) :
    /\ ~enabled[i]
    /\ inv.pc = "awaiting"
    /\ inv.results[i] = "true"
    /\ Pending(inv) # {}
    /\ provItems[i] # <<>>
    /\ sources = Undefined
    /\ writable = Undefined

\* The provider argument of the call names one of the registered providers.
NamesProvider(provider) ==
  IsDefined(provider) /\ \E i \in ProviderIndex : providers[i] = Value(provider)

\* C24: generateBibLaTeX without a provider argument, or with a key that
\* names no registered provider, asks no provider and resolves to
\* toBibLaTeX(id, csl); with a registered provider that produces a citation
\* the result is that citation, not the generic one.
C24_GenericWithoutProviderElseProviders ==
  /\ (bib.pc # "idle" /\ ~NamesProvider(bib.provider))
       => /\ bib.pc = "resolved"
          /\ bib.asked = 0
          /\ bib.result = Some(toBibLaTeX(bib.id, bib.csl))
  /\ (bib.pc # "idle" /\ NamesProvider(bib.provider))
       => providers[bib.asked] = Value(bib.provider)
  /\ (bib.pc = "resolved" /\ bib.asked # 0 /\ IsDefined(bib.answer))
       => /\ bib.result = bib.answer
          /\ Value(bib.result).generator = providers[bib.asked]
          /\ bib.result # Some(toBibLaTeX(bib.id, bib.csl))

\* A call naming the Zotero provider has resolved to Zotero's own entry.
C24_Witness ==
  /\ bib.pc = "resolved"
  /\ bib.provider = Some(kZoteroProviderKey)
  /\ IsDefined(bib.result)
  /\ Value(bib.result).generator = kZoteroProviderKey
  /\ Value(bib.result).title = "Foo"

\* C25: in a scoped search by text the limit is applied before the scope
\* filter: searchProvider(query, limit, P) is the part of
\* searchAllSources(query, limit), in its order, whose providerKey is P (and
\* searchProviderCollection the part of that in the collection), so records
\* of P that match are missed when the best `limit' matches are of other
\* providers.
C25_LimitBeforeScope ==
  \A query \in QueryTexts : \A limit \in Limits : \A P \in ProviderKeys :
    /\ searchProvider(query, limit, P)
         = SelectSeq(searchAllSources(query, limit), LAMBDA record : record.providerKey = P)
    /\ \A C \in CollectionKeys :
         searchProviderCollection(query, limit, P, C)
           = SelectSeq(searchAllSources(query, limit),
               LAMBDA record : record.providerKey = P /\ InCollection(record, C))

\* The manager is writable, a record of each provider matches the query and
\* the local one comes first: with limit 1 the search scoped to the remote
\* provider returns nothing although a remote record matches.
C25_Witness ==
  /\ isWritable
  /\ Len(AllMatches(Ids[1])) = 2
  /\ AllMatches(Ids[1])[2].providerKey = kZoteroProviderKey
  /\ searchProvider(Ids[1], 1, kZoteroProviderKey) = <<>>
  /\ searchProvider(Ids[1], 2, kZoteroProviderKey) # <<>>

\* A call without a provider key: the argument is left out or is empty.
NoProviderKey == { Undefined, Some("") }

\* C26: a collection key given to search() without a provider key has no
\* effect: search(query, undefined, C) is search(query), and
\* search(undefined, undefined, C) is allSources(), for every C.
C26_CollectionWithoutProviderIgnored ==
  \A P \in NoProviderKey : \A C \in CollectionKeys :
    /\ \A query \in QueryArguments :
         search(query, P, Some(C)) = search(query, Undefined, Undefined)
    /\ \A query \in NoQueryText : search(query, P, Some(C)) = allSources

\* The merged set has records and none is in collection c9; the search by
\* collection c9 alone still returns them all, with and without text.
C26_Witness ==
  /\ isWritable
  /\ Len(MergedSet) = 2
  /\ \A k \in 1..Len(MergedSet) : ~InCollection(MergedSet[k], "c9")
  /\ search(Undefined, Undefined, Some("c9")) = MergedSet
  /\ Len(search(Some(Ids[1]), Undefined, Some("c9"))) = 2

\* C27: before the first load() has completed isWritable() is false whatever
\* bibliography files exist, none included, and it becomes true only in the
\* step in which a load() completes.
C27_NotWritableBeforeFirstLoad ==
  /\ ~isWritable
  /\ [][(~isWritable /\ isWritable')
          => \E inv \in BagToSet(loads) : IsCommitOf(inv) /\ shouldAllowWrites]_vars

\* A first load() was called and rejected; there is no bibliography file, so
\* a load() would note the manager writable, and isWritable() is false.
C27_Witness ==
  /\ last = "rejected"
  /\ writable = Undefined
  /\ FilesOfAllProviders = <<>>
  /\ shouldAllowWrites
  /\ ~isWritable

\* C28: the state of LinkPopupPlugin starts as the empty decoration set, and
\* after every transaction it holds exactly one popup widget decoration if
\* the head of the transaction's selection is in the range of a link mark
\* and is empty otherwise; it is determined by the transaction alone, so
\* popups never pile up and none stays when the selection leaves the link.
C28_OnePopupIffHeadInLink ==
  /\ linkTr = Undefined => linkPopups = <<>>
  /\ IsDefined(linkTr) =>
       LET tr == Value(linkTr)
           range == getMarkRange(tr.doc, tr.head)
       IN  /\ IsDefined(range)
                => /\ Len(linkPopups) = 1
                   /\ linkPopups[1].type = "widget"
                   /\ linkPopups[1].pos \in {Value(range).from, Value(range).to}
                   /\ linkPopups[1].toDOM.innerText = tr.doc[tr.head + 1]
           /\ ~IsDefined(range) => linkPopups = <<>>
           /\ linkPopups = state_apply(tr, <<>>)

\* The selection sits in the second of two adjacent links, near the right
\* edge of a narrow view: one popup, placed at the end of that link.
C28_Witness ==
  /\ IsDefined(linkTr)
  /\ Value(linkTr).doc = <<"https://a.org", "https://b.org", "https://b.org">>
  /\ Value(linkTr).head = 2
  /\ Len(linkPopups) = 1
  /\ linkPopups[1].pos = 3
  /\ linkPopups[1].toDOM.innerText = "https://b.org"

\* C29: however the detection response, the user's edits of the directory
\* box and onApply interleave, the persisted zoteroDataDir is in every
\* reachable state empty or different from the detected data directory.
C29_PersistedNeverTheDetectedDir ==
  paneOpen => (stateZoteroDataDir = "" \/ stateZoteroDataDir # detectedZoteroDataDir_)

\* The other half of C29: the detection response never overwrites a
\* directory box that is not empty.
C29_ResponseKeepsNonEmptyBox ==
  [][(detection = "pending" /\ detection' = "received" /\ zoteroDataDir_ # "")
       => zoteroDataDir_' = zoteroDataDir_]_vars

\* The attributes that a token carries, as they were written.
WrittenAttribs == At(Value(listToken).c, LIST_ATTRIBS)

\* C30: the attributes of an ordered list survive writePandocOrderedList
\* followed by readPandocList under the same capabilities: with order and
\* fancy supported and a list that is not an example list, order, number
\* style and delimiter read back are those of the node; without order the
\* written and the read order are 1; without fancy the written and the read
\* style and delimiter are the defaults.
C30_OrderedListAttrsRoundTrip ==
  IsDefined(listAttrs) =>
    LET capabilities == Value(listCapabilities)
        node == Value(listNode)
        attrs == Value(listAttrs)
    IN  /\ (/\ capabilities.order
             /\ capabilities.fancy
             /\ ~listNodeOptions(node, capabilities).example)
              => /\ attrs.order = node.order
                 /\ attrs.number_style = node.number_style
                 /\ attrs.number_delim = node.number_delim
        /\ ~capabilities.order
              => /\ At(WrittenAttribs, LIST_ATTRIB_ORDER) = 1
                 /\ attrs.order = 1
        /\ ~capabilities.fancy
              => /\ At(WrittenAttribs, LIST_ATTRIB_NUMBER_STYLE).t = "DefaultStyle"
                 /\ At(WrittenAttribs, LIST_ATTRIB_NUMBER_DELIM).t = "DefaultDelim"
                 /\ attrs.number_style = "DefaultStyle"
                 /\ attrs.number_delim = "DefaultDelim"

\* A list that starts at 2 with roman numbers in parentheses was written and
\* read back as it was by a format with order and fancy lists.
C30_Witness ==
  /\ IsDefined(listAttrs)
  /\ Value(listCapabilities).order
  /\ Value(listCapabilities).fancy
  /\ Value(listNode).order = 2
  /\ Value(listNode).number_style = "LowerRoman"
  /\ Value(listNode).number_delim = "TwoParens"
  /\ Value(listAttrs).order = 2
  /\ Value(listAttrs).number_style = "LowerRoman"
  /\ Value(listAttrs).number_delim = "TwoParens"

====
